---- MODULE Spec2Model ----
(***************************************************************************)
(* Model of script/imageResize.py: ResizeImage(filein, fileout, width,     *)
(* height) opens an image with PIL, resizes it to exactly (width, height)  *)
(* and saves it under fileout.  The file system, the file handles PIL      *)
(* holds and the position of each call are the state.  The PIL calls of    *)
(* lines 12, 13 and 15 are modelled by what the library does to that       *)
(* state (Pillow 9.x, the release line that still has Image.ANTIALIAS).    *)
(***************************************************************************)
EXTENDS Integers, Sequences, FiniteSets, TLC

VARIABLES
    fs,       \* path -> content of the file at that path
    dirs,     \* the directories that exist
    pc,       \* per call: the statement of ResizeImage it is about to run
    args,     \* per call: the arguments (filein, fileout, width, height)
    img,      \* per call: local img, the (lazily loaded) opened image
    out,      \* per call: local out, the resized image
    fmt,      \* per call: Image.save's local format
    created,  \* per call: Image.save's local created
    fpin,     \* per call: the input handle Image.open holds is open
    fpout,    \* per call: the output handle Image.save holds is open
    err,      \* per call: the exception that left ResizeImage, and where
    pre,      \* per call: the file system when the call began
    trace,    \* per call: the statements the call has run, in order
    prev,     \* outcome of the previous call with the same arguments
    fs0       \* the file system before any call

vars == <<fs, dirs, pc, args, img, out, fmt, created, fpin, fpout, err,
          pre, trace, prev, fs0>>

-----------------------------------------------------------------------------
(* Bounds *)

\* Target dimensions are drawn from -1..MaxDim, and the literals of __main__.
MaxDim == 1
\* The trace of a call records at most MaxTrace statements.
MaxTrace == 4

-----------------------------------------------------------------------------
(* The literals of the direct-execution guard *)

filein == "../assets//resized//prof_pic_yh.jpeg"
fileout == "../assets//resized//prof_pic-480x659.jpeg"
width == 480
height == 659

-----------------------------------------------------------------------------
(* The file system *)

AlphaPath == "../assets//resized//alpha.png"
LockedPath == "../assets//resized//locked.png"
OrphanPath == "../missing//out.jpeg"

Paths == {filein, fileout, AlphaPath, LockedPath, OrphanPath}

Procs == {1, 2}

\* os.path.dirname of a path.
Dir(path) == IF path = OrphanPath THEN "../missing" ELSE "../assets//resized"

\* os.path.splitext(filename)[1].lower()
Ext(path) == IF path \in {AlphaPath, LockedPath} THEN ".png" ELSE ".jpeg"

\* PIL's registry of extensions (Image.EXTENSION).
EXTENSION == [e \in {".jpeg", ".png"} |-> IF e = ".png" THEN "PNG" ELSE "JPEG"]

File(kind, format, mode, size, id) ==
    [kind |-> kind, format |-> format, mode |-> mode, size |-> size, id |-> id]

Absent  == File("absent", "-", "-", <<0, 0>>, 0)    \* no file at the path
Empty   == File("empty", "-", "-", <<0, 0>>, 0)     \* a zero-length file
Garbage == File("garbage", "-", "-", <<0, 0>>, 0)   \* bytes that are no image
Locked  == File("locked", "-", "-", <<0, 0>>, 0)    \* no read or write permission
Photo   == File("image", "JPEG", "RGB", <<1200, 1650>>, 1)
Damaged == File("truncated", "JPEG", "RGB", <<1200, 1650>>, 1)
Alpha   == File("image", "PNG", "RGBA", <<2, 1>>, 2)
Old     == File("image", "JPEG", "RGB", <<480, 659>>, 3)

NoImage == [format |-> "-", mode |-> "-", size |-> <<0, 0>>, id |-> 0,
            loaded |-> FALSE]
NoArgs == [filein |-> "-", fileout |-> "-", width |-> 0, height |-> 0]
NoErr == [exc |-> "none", at |-> "none"]
NoPrev == [valid |-> FALSE, ok |-> FALSE, input |-> Absent, output |-> Absent]

Widths == (-1 .. MaxDim) \cup {width}
Heights == (0 .. MaxDim) \cup {height}

-----------------------------------------------------------------------------
(* The PIL calls ResizeImage makes, as functions of the state they read *)

Decodable(c) == c.kind = "image"

\* Image.open(filein): opens the file and identifies it from its header.  The
\* pixel data is not read yet (the image is lazy) and the handle stays open.
\* A file that cannot be identified has its handle closed before the raise.
ImageOpen(c) ==
    CASE c.kind = "absent" -> [exc |-> "FileNotFoundError", img |-> NoImage]
      [] c.kind = "locked" -> [exc |-> "PermissionError", img |-> NoImage]
      [] c.kind \in {"empty", "garbage"} ->
            [exc |-> "UnidentifiedImageError", img |-> NoImage]
      [] OTHER ->
            [exc |-> "none",
             img |-> [format |-> c.format, mode |-> c.mode, size |-> c.size,
                      id |-> c.id, loaded |-> FALSE]]

\* Mutant: PIL configured to accept truncated image data.
ImageLoadTruncated(im, c) ==
    IF c.kind \in {"image", "truncated"} /\ c.format = im.format
          /\ c.size = im.size /\ c.id = im.id
    THEN [exc |-> "none", img |-> [im EXCEPT !.loaded = TRUE]]
    ELSE [exc |-> "OSError", img |-> im]

\* img.load(), which img.resize runs first: reads the pixel data through the
\* handle Image.open left open.  c is the file's content at that moment; data
\* that is cut short, or no longer the image that was identified, raises.
ImageLoad(im, c) ==
    IF c.kind = "image" /\ c.format = im.format /\ c.mode = im.mode
          /\ c.size = im.size /\ c.id = im.id
    THEN [exc |-> "none", img |-> [im EXCEPT !.loaded = TRUE]]
    ELSE [exc |-> "OSError", img |-> im]

\* Mutant: the arguments of the size pair swapped.
ImageResizeSwapped(im, w, h) ==
    IF w < 1 \/ h < 1
    THEN [exc |-> "ValueError", out |-> NoImage]
    ELSE [exc |-> "none",
          out |-> [format |-> "-", mode |-> im.mode, size |-> <<h, w>>,
                   id |-> im.id, loaded |-> TRUE]]

\* Mutant: only negative sizes are rejected.
ImageResizeZeroAllowed(im, w, h) ==
    IF w < 0 \/ h < 0
    THEN [exc |-> "ValueError", out |-> NoImage]
    ELSE [exc |-> "none",
          out |-> [format |-> "-", mode |-> im.mode, size |-> <<w, h>>,
                   id |-> im.id, loaded |-> TRUE]]

\* img.resize((width, height), Image.ANTIALIAS) on a loaded image: a new image
\* of exactly the requested size ("height and width must be > 0" otherwise).
ImageResize(im, w, h) ==
    IF w < 1 \/ h < 1
    THEN [exc |-> "ValueError", out |-> NoImage]
    ELSE [exc |-> "none",
          out |-> [format |-> "-", mode |-> im.mode, size |-> <<w, h>>,
                   id |-> im.id, loaded |-> TRUE]]

\* Mutant: the result is written over the input.
SaveInPlace(a) == a.filein

\* Mutant: the result is written to the path of the direct-execution guard.
SaveFixed(a) == fileout

\* The path out.save is given.
SaveTarget(a) == a.fileout

\* Image.save: the format is looked up from the extension of the file name.
SaveFormat(path) ==
    IF Ext(path) \in DOMAIN EXTENSION
    THEN [exc |-> "none", format |-> EXTENSION[Ext(path)]]
    ELSE [exc |-> "ValueError", format |-> "-"]

\* Mutant: the missing directory is made first.
OpenForWriteMakedirs(f, d, path) ==
    IF f[path].kind = "locked"
    THEN [exc |-> "PermissionError", fs |-> f, dirs |-> d, created |-> FALSE]
    ELSE [exc |-> "none", fs |-> [f EXCEPT ![path] = Empty],
          dirs |-> d \cup {Dir(path)}, created |-> f[path].kind = "absent"]

\* Mutant: exclusive creation, an existing file is an error.
OpenForWriteExclusive(f, d, path) ==
    CASE Dir(path) \notin d ->
            [exc |-> "FileNotFoundError", fs |-> f, dirs |-> d, created |-> TRUE]
      [] f[path].kind # "absent" ->
            [exc |-> "FileExistsError", fs |-> f, dirs |-> d, created |-> FALSE]
      [] OTHER ->
            [exc |-> "none", fs |-> [f EXCEPT ![path] = Empty], dirs |-> d,
             created |-> TRUE]

\* Image.save: created = not os.path.exists(filename), then
\* builtins.open(filename, "w+b"), which truncates an existing file and makes
\* no directory.
OpenForWrite(f, d, path) ==
    CASE Dir(path) \notin d ->
            [exc |-> "FileNotFoundError", fs |-> f, dirs |-> d, created |-> TRUE]
      [] f[path].kind = "locked" ->
            [exc |-> "PermissionError", fs |-> f, dirs |-> d, created |-> FALSE]
      [] OTHER ->
            [exc |-> "none", fs |-> [f EXCEPT ![path] = Empty], dirs |-> d,
             created |-> f[path].kind = "absent"]

\* The format's save handler: the JPEG encoder has no raw mode for RGBA
\* ("cannot write mode RGBA as JPEG").
SaveHandler(o, format) ==
    IF format = "JPEG" /\ o.mode = "RGBA"
    THEN [exc |-> "OSError", content |-> Empty]
    ELSE [exc |-> "none",
          content |-> File("image", format, o.mode, o.size, o.id)]

\* Image.save after the open: the handler writes the file; when it raises,
\* the handle is closed and a file that save created is removed.
SaveWrite(f, path, o, format, wasCreated) ==
    LET h == SaveHandler(o, format) IN
    IF h.exc = "none"
    THEN [exc |-> "none", fs |-> [f EXCEPT ![path] = h.content]]
    ELSE [exc |-> h.exc,
          fs |-> IF wasCreated THEN [f EXCEPT ![path] = Absent] ELSE f]

\* One whole call of ResizeImage on file system f with directories d.
RunCall(f, d, a) ==
    LET o == ImageOpen(f[a.filein])
        l == ImageLoad(o.img, f[a.filein])
        r == ImageResize(l.img, a.width, a.height)
        t == SaveTarget(a)
        s == SaveFormat(t)
        w == OpenForWrite(f, d, t)
        e == SaveWrite(w.fs, t, r.out, s.format, w.created)
    IN  CASE o.exc # "none" -> [fs |-> f, dirs |-> d, exc |-> o.exc]
          [] l.exc # "none" -> [fs |-> f, dirs |-> d, exc |-> l.exc]
          [] r.exc # "none" -> [fs |-> f, dirs |-> d, exc |-> r.exc]
          [] s.exc # "none" -> [fs |-> f, dirs |-> d, exc |-> s.exc]
          [] w.exc # "none" -> [fs |-> w.fs, dirs |-> w.dirs, exc |-> w.exc]
          [] OTHER -> [fs |-> e.fs, dirs |-> w.dirs, exc |-> e.exc]

-----------------------------------------------------------------------------
(* The state machine *)

Finished == {"done", "failed"}

Running == {"open", "resize", "save", "write"}

InitialFiles ==
    {f \in [Paths -> {Absent, Photo, Damaged, Old, Alpha, Garbage, Locked}] :
        /\ f[filein] \in {Absent, Photo, Damaged}
        /\ f[fileout] \in {Absent, Old}
        /\ f[AlphaPath] \in {Absent, Alpha, Garbage}
        /\ f[LockedPath] \in {Absent, Locked}
        /\ f[OrphanPath] = Absent}

Init ==
    /\ fs \in InitialFiles
    /\ fs0 = fs
    /\ dirs = {"../assets//resized"}
    /\ pc = [p \in Procs |-> "idle"]
    /\ args = [p \in Procs |-> NoArgs]
    /\ img = [p \in Procs |-> NoImage]
    /\ out = [p \in Procs |-> NoImage]
    /\ fmt = [p \in Procs |-> "-"]
    /\ created = [p \in Procs |-> FALSE]
    /\ fpin = [p \in Procs |-> FALSE]
    /\ fpout = [p \in Procs |-> FALSE]
    /\ err = [p \in Procs |-> NoErr]
    /\ pre = [p \in Procs |-> fs]
    /\ trace = [p \in Procs |-> <<>>]
    /\ prev = NoPrev

\* The trace of a call with statement s added.
Ran(p, s) ==
    [trace EXCEPT ![p] = IF Len(@) < MaxTrace THEN Append(@, s) ELSE @]

\* Mutant: a failed call is started over.
RetryOnFailure(at) == "open"

\* Where a call goes when a statement raises: ResizeImage catches nothing.
OnFailure(at) == "failed"

\* Exception e leaves ResizeImage from statement at.
Raise(p, e, at) ==
    /\ pc' = [pc EXCEPT ![p] = OnFailure(at)]
    /\ err' = [err EXCEPT ![p] = [exc |-> e, at |-> at]]

\* Entry into ResizeImage with arguments a.
Enter(p, a) ==
    /\ pc' = [pc EXCEPT ![p] = "open"]
    /\ args' = [args EXCEPT ![p] = a]
    /\ img' = [img EXCEPT ![p] = NoImage]
    /\ out' = [out EXCEPT ![p] = NoImage]
    /\ fmt' = [fmt EXCEPT ![p] = "-"]
    /\ created' = [created EXCEPT ![p] = FALSE]
    /\ err' = [err EXCEPT ![p] = NoErr]
    /\ pre' = [pre EXCEPT ![p] = fs]
    /\ trace' = [trace EXCEPT ![p] = <<>>]
    /\ UNCHANGED <<fs, dirs, fpin, fpout, fs0>>

\* A caller calls ResizeImage(filein, fileout, width, height).
Call(p, W, H) ==
    /\ pc[p] = "idle"
    /\ \E a \in [filein : Paths, fileout : Paths, width : W, height : H] :
          Enter(p, a)
    /\ UNCHANGED prev

\* The direct-execution guard: the call with the literal arguments.
Main(p) ==
    /\ pc[p] = "idle"
    /\ Enter(p, [filein |-> filein, fileout |-> fileout,
                 width |-> width, height |-> height])
    /\ UNCHANGED prev

\* The same call made once more after it has returned or raised.
Again(p) ==
    /\ pc[p] \in Finished
    /\ prev' = [valid |-> TRUE, ok |-> pc[p] = "done",
                input |-> pre[p][args[p].filein],
                output |-> fs[args[p].fileout]]
    /\ Enter(p, args[p])

\* img = Image.open(filein)
Open(p) ==
    /\ pc[p] = "open"
    /\ trace' = Ran(p, "open")
    /\ LET o == ImageOpen(fs[args[p].filein]) IN
          IF o.exc = "none"
          THEN /\ img' = [img EXCEPT ![p] = o.img]
               /\ fpin' = [fpin EXCEPT ![p] = TRUE]
               /\ pc' = [pc EXCEPT ![p] = "resize"]
               /\ UNCHANGED err
          ELSE /\ Raise(p, o.exc, "open")
               /\ UNCHANGED <<img, fpin>>
    /\ UNCHANGED <<fs, dirs, args, out, fmt, created, fpout, pre, prev, fs0>>

\* out = img.resize((width, height), Image.ANTIALIAS): loads the pixel data
\* (closing the input handle once it is read), then resamples.
Resize(p) ==
    /\ pc[p] = "resize"
    /\ trace' = Ran(p, "resize")
    /\ LET l == ImageLoad(img[p], fs[args[p].filein])
           r == ImageResize(l.img, args[p].width, args[p].height)
       IN  CASE l.exc # "none" ->
                  /\ Raise(p, l.exc, "load")
                  /\ UNCHANGED <<img, out, fpin>>
             [] l.exc = "none" /\ r.exc # "none" ->
                  /\ Raise(p, r.exc, "resize")
                  /\ img' = [img EXCEPT ![p] = l.img]
                  /\ fpin' = [fpin EXCEPT ![p] = FALSE]
                  /\ UNCHANGED out
             [] OTHER ->
                  /\ img' = [img EXCEPT ![p] = l.img]
                  /\ fpin' = [fpin EXCEPT ![p] = FALSE]
                  /\ out' = [out EXCEPT ![p] = r.out]
                  /\ pc' = [pc EXCEPT ![p] = "save"]
                  /\ UNCHANGED err
    /\ UNCHANGED <<fs, dirs, args, fmt, created, fpout, pre, prev, fs0>>

\* out.save(fileout), up to the open of the output file.
SaveBegin(p) ==
    /\ pc[p] = "save"
    /\ trace' = Ran(p, "save")
    /\ LET t == SaveTarget(args[p])
           s == SaveFormat(t)
           w == OpenForWrite(fs, dirs, t)
       IN  CASE s.exc # "none" ->
                  /\ Raise(p, s.exc, "save")
                  /\ UNCHANGED <<fs, dirs, fmt, created, fpout>>
             [] s.exc = "none" /\ w.exc # "none" ->
                  /\ Raise(p, w.exc, "save")
                  /\ fs' = w.fs
                  /\ dirs' = w.dirs
                  /\ fmt' = [fmt EXCEPT ![p] = s.format]
                  /\ UNCHANGED <<created, fpout>>
             [] OTHER ->
                  /\ fs' = w.fs
                  /\ dirs' = w.dirs
                  /\ fmt' = [fmt EXCEPT ![p] = s.format]
                  /\ created' = [created EXCEPT ![p] = w.created]
                  /\ fpout' = [fpout EXCEPT ![p] = TRUE]
                  /\ pc' = [pc EXCEPT ![p] = "write"]
                  /\ UNCHANGED err
    /\ UNCHANGED <<args, img, out, fpin, pre, prev, fs0>>

\* out.save(fileout), from the save handler to the close of the output file.
SaveEnd(p) ==
    /\ pc[p] = "write"
    /\ LET e == SaveWrite(fs, SaveTarget(args[p]), out[p], fmt[p], created[p])
       IN  /\ fs' = e.fs
           /\ fpout' = [fpout EXCEPT ![p] = FALSE]
           /\ IF e.exc = "none"
              THEN /\ pc' = [pc EXCEPT ![p] = "done"]
                   /\ UNCHANGED err
              ELSE Raise(p, e.exc, "save")
    /\ UNCHANGED <<dirs, args, img, out, fmt, created, fpin, pre, trace, prev,
                   fs0>>

\* The statements of a call that has begun.
Step(p) == Open(p) \/ Resize(p) \/ SaveBegin(p) \/ SaveEnd(p)

\* The script as written: one caller, one call at a time.
Next ==
    \/ Call(1, Widths, Heights)
    \/ Main(1)
    \/ Again(1)
    \/ Open(1)
    \/ Resize(1)
    \/ SaveBegin(1)
    \/ SaveEnd(1)

Spec == Init /\ [][Next]_vars

\* A call that has begun runs to its end: it is synchronous and blocking.
LiveSpec == Spec /\ WF_vars(Step(1))

\* Two callers at once, each making one call with positive dimensions.
ConcNext ==
    \E p \in Procs :
        \/ Call(p, {MaxDim, width}, {height})
        \/ Main(p)
        \/ Open(p)
        \/ Resize(p)
        \/ SaveBegin(p)
        \/ SaveEnd(p)

ConcSpec == Init /\ [][ConcNext]_vars

-----------------------------------------------------------------------------
(* Properties.  Under Spec and LiveSpec the caller is process 1. *)

InitialDirs == {"../assets//resized"}

\* The spec's error kind of an exception, by the step of the call that raised
\* it: reading the input, checking the size, writing the output.
ErrorKind(e) ==
    CASE e.at \in {"open", "load"} -> "DecodeError"
      [] e.at = "resize" -> "InvalidDimensions"
      [] e.at = "save" -> "EncodeError"
      [] OTHER -> "none"

\* The statement of ResizeImage an exception came out of.
Statement(at) == IF at = "load" THEN "resize" ELSE at

Saved(p) == \E i \in 1 .. Len(trace[p]) : trace[p][i] = "save"

IsPrefix(s, t) == Len(s) <= Len(t) /\ \A i \in 1 .. Len(s) : s[i] = t[i]

BadDimensions(a) == a.width <= 0 \/ a.height <= 0

\* C1: a call that succeeds leaves at fileout a complete image of exactly
\* (width, height) pixels, whatever the size of the source image.
C1_ExactDimensions ==
    pc[1] = "done" =>
        /\ fs[args[1].fileout].kind = "image"
        /\ fs[args[1].fileout].size = <<args[1].width, args[1].height>>

\* The 1200x1650 source resized by the literal call of __main__.
C1_Witness ==
    /\ pc[1] = "done"
    /\ args[1] = [filein |-> filein, fileout |-> fileout,
                  width |-> 480, height |-> 659]
    /\ pre[1][filein].size = <<1200, 1650>>
    /\ fs[fileout].size = <<480, 659>>

\* C2: a call ends either in success with a complete image at fileout, or in
\* failure with no file at fileout that the call left truncated.
C2_AllOrNothing ==
    /\ pc[1] = "done" => fs[args[1].fileout].kind = "image"
    /\ pc[1] = "failed" =>
          ~(/\ fs[args[1].fileout].kind = "empty"
            /\ pre[1][args[1].fileout].kind # "empty")

\* C3 as claimed: every call with a non-positive width or height fails with
\* InvalidDimensions, never reaches save and leaves fileout as it was.
C3_Original ==
    (pc[1] \in Finished /\ BadDimensions(args[1])) =>
        /\ pc[1] = "failed"
        /\ ErrorKind(err[1]) = "InvalidDimensions"
        /\ ~Saved(1)
        /\ fs[args[1].fileout] = pre[1][args[1].fileout]

\* C3 as amended: every call with a non-positive width or height fails, never
\* reaches save and leaves fileout as it was; the failure is InvalidDimensions
\* when filein is a decodable image, and DecodeError when it is not.
C3_Amended ==
    (pc[1] \in Finished /\ BadDimensions(args[1])) =>
        /\ pc[1] = "failed"
        /\ ~Saved(1)
        /\ fs[args[1].fileout] = pre[1][args[1].fileout]
        /\ ErrorKind(err[1]) =
              IF Decodable(pre[1][args[1].filein])
              THEN "InvalidDimensions" ELSE "DecodeError"

\* A decodable image asked to be resized to width 0.
C3_Witness ==
    /\ pc[1] = "failed"
    /\ args[1].width = 0
    /\ Decodable(pre[1][args[1].filein])
    /\ err[1] = [exc |-> "ValueError", at |-> "resize"]

\* C4: a call whose filein is missing, unreadable or no decodable image fails
\* with DecodeError before any resampling and before save, and no file is
\* created or modified.
C4_DecodeError ==
    (pc[1] \in Finished /\ ~Decodable(pre[1][args[1].filein])) =>
        /\ pc[1] = "failed"
        /\ ErrorKind(err[1]) = "DecodeError"
        /\ out[1] = NoImage
        /\ ~Saved(1)
        /\ fs = pre[1]

\* A missing filein with positive dimensions and an absent fileout.
C4_Witness ==
    /\ pc[1] = "failed"
    /\ pre[1][args[1].filein] = Absent
    /\ args[1].width > 0 /\ args[1].height > 0
    /\ err[1] = [exc |-> "FileNotFoundError", at |-> "open"]
    /\ fs[args[1].fileout] = Absent

\* C5 as claimed: every call whose fileout lies in a missing directory fails
\* with EncodeError, makes no directory and leaves filein as it was.
C5_Original ==
    (pc[1] \in Finished /\ Dir(args[1].fileout) \notin InitialDirs) =>
        /\ pc[1] = "failed"
        /\ ErrorKind(err[1]) = "EncodeError"
        /\ dirs = InitialDirs
        /\ fs[args[1].filein] = pre[1][args[1].filein]

\* C5 as amended: every call whose fileout lies in a missing directory fails,
\* makes no directory and leaves filein as it was; the failure is EncodeError
\* when filein is a decodable image and width and height are positive (the
\* decode and the size check come first).
C5_Amended ==
    (pc[1] \in Finished /\ Dir(args[1].fileout) \notin InitialDirs) =>
        /\ pc[1] = "failed"
        /\ dirs = InitialDirs
        /\ fs[args[1].filein] = pre[1][args[1].filein]
        /\ (Decodable(pre[1][args[1].filein]) /\ ~BadDimensions(args[1])) =>
              ErrorKind(err[1]) = "EncodeError"

\* A decodable image saved into the missing directory.
C5_Witness ==
    /\ pc[1] = "failed"
    /\ Dir(args[1].fileout) \notin InitialDirs
    /\ Decodable(pre[1][args[1].filein])
    /\ err[1] = [exc |-> "FileNotFoundError", at |-> "save"]

\* C6 as claimed: during and after every call, also one whose fileout is
\* filein, the file at filein is as it was when the call began, and so is
\* every file other than fileout.
C6_Original ==
    pc[1] # "idle" =>
        /\ fs[args[1].filein] = pre[1][args[1].filein]
        /\ \A path \in Paths \ {args[1].fileout} : fs[path] = pre[1][path]

\* C6 as amended: during and after every call, every file other than fileout
\* is as it was when the call began; so the file at filein is unchanged
\* whenever fileout names another path than filein.
C6_Amended ==
    pc[1] # "idle" =>
        /\ \A path \in Paths \ {args[1].fileout} : fs[path] = pre[1][path]
        /\ args[1].filein # args[1].fileout =>
              fs[args[1].filein] = pre[1][args[1].filein]

\* A successful call that wrote fileout, another path than filein.
C6_Witness ==
    /\ pc[1] = "done"
    /\ args[1].filein # args[1].fileout
    /\ fs[args[1].fileout] # pre[1][args[1].fileout]

\* C7: when a call has returned or raised, neither its input handle nor its
\* output handle is open.
C7_HandlesReleased ==
    pc[1] \in Finished => ~fpin[1] /\ ~fpout[1]

PairwiseDistinct ==
    Cardinality({args[1].filein, args[1].fileout,
                 args[2].filein, args[2].fileout}) = 4

\* C8: two concurrent calls on pairwise distinct paths leave, under every
\* interleaving of their steps, the files that the two calls leave when run
\* one after the other, in either order.
C8_Independent ==
    (pc[1] \in Finished /\ pc[2] \in Finished /\ PairwiseDistinct) =>
        /\ fs = RunCall(RunCall(fs0, InitialDirs, args[1]).fs, InitialDirs,
                        args[2]).fs
        /\ fs = RunCall(RunCall(fs0, InitialDirs, args[2]).fs, InitialDirs,
                        args[1]).fs

\* Two calls on pairwise distinct paths that both succeeded.
C8_Witness ==
    /\ pc[1] = "done" /\ pc[2] = "done"
    /\ PairwiseDistinct
    /\ fs[args[1].fileout] # fs0[args[1].fileout]
    /\ fs[args[2].fileout] # fs0[args[2].fileout]

\* C8, the shared fileout: both calls read filein and write fileout, call 1
\* to width 480 and call 2 to width MaxDim.
SharedOutput ==
    /\ pc[1] = "done" /\ pc[2] = "done"
    /\ fs0[filein] = Photo
    /\ args[1] = [filein |-> filein, fileout |-> fileout,
                  width |-> width, height |-> height]
    /\ args[2] = [filein |-> filein, fileout |-> fileout,
                  width |-> MaxDim, height |-> height]

\* ... in some interleavings the result of call 1 is what remains,
C8_FirstRemains == SharedOutput /\ fs[fileout].size = <<width, height>>

\* ... and in others the result of call 2.
C8_SecondRemains == SharedOutput /\ fs[fileout].size = <<MaxDim, height>>

C10_Order ==
    /\ IsPrefix(trace[1], <<"open", "resize", "save">>)
    /\ pc[1] = "open" => trace[1] = <<>>
    /\ pc[1] = "resize" => trace[1] = <<"open">>
    /\ pc[1] = "save" => trace[1] = <<"open", "resize">>
    /\ pc[1] \in {"write", "done"} => trace[1] = <<"open", "resize", "save">>
    /\ pc[1] = "failed" =>
          /\ trace[1] # <<>>
          /\ trace[1][Len(trace[1])] = Statement(err[1].at)
    /\ pc[1] # "failed" => err[1] = NoErr

\* C10: a call runs open, resize, save in this order, each at most once; the
\* statement that raises is the last one the call runs and its exception
\* leaves the call; and every call that has begun ends, done or failed.
C10_StepsInOrder ==
    /\ []C10_Order
    /\ (pc[1] \in Running) ~> (pc[1] \in Finished)

\* A call that resize ended: open and resize ran, save never did.
C10_Witness ==
    /\ pc[1] = "failed"
    /\ err[1].at = "resize"
    /\ trace[1] = <<"open", "resize">>

====
